---- MODULE Spec2Model ----
(***************************************************************************)
(* Verification model of the quantum dataset generators.                   *)
(*                                                                         *)
(*   src/Code/generate_quantum_dataset.py                                  *)
(*       generate_hermitian_product_states, generate_coefficients,         *)
(*       generate_separable_states (mode 1), is_entangled,                 *)
(*       generate_entangled_states                                         *)
(*   src/generate_separable_states.py                                      *)
(*       calculate_tensor_product, generate_separable_states (mode 3)      *)
(*                                                                         *)
(* Every entry point has one frame variable holding the locals of its      *)
(* activation (field names are the source's names) and one specification   *)
(* that runs it from its call to its return or raise.                      *)
(*                                                                         *)
(* Numbers.  Floating point values are modelled exactly.  A real is an     *)
(* integer on a fixed positive scale (a positive scale changes neither the *)
(* sign of an eigenvalue nor a quotient x / sum(x)).  Where the code       *)
(* divides, a value is a complex rational [re, im, den] in lowest terms;   *)
(* den = 0 is the non-finite result (nan / inf) of a division by zero.     *)
(***************************************************************************)
EXTENDS Integers, Sequences, FiniteSets, TLC

VARIABLES cl, es, hp, gc, ss, tp

vars == <<cl, es, hp, gc, ss, tp>>

\* The frame of an entry point that is not running.
Idle == [pc |-> "idle"]

----------------------------------------------------------------------------
(* Integer helpers *)

Abs(x) == IF x < 0 THEN -x ELSE x

Sign(x) == IF x < 0 THEN -1 ELSE IF x = 0 THEN 0 ELSE 1

RECURSIVE GCD(_, _)
GCD(a, b) == IF b = 0 THEN a ELSE GCD(b, a % b)

RECURSIVE SumTo(_, _)
\* f[1] + ... + f[n]
SumTo(f, n) == IF n = 0 THEN 0 ELSE SumTo(f, n - 1) + f[n]

----------------------------------------------------------------------------
(* numpy on real matrices: a matrix is a sequence of rows *)

shape(A) == <<Len(A), IF Len(A) = 0 THEN 0 ELSE Len(A[1])>>

eye(n) == [r \in 1..n |-> [c \in 1..n |-> IF r = c THEN 1 ELSE 0]]

transpose(A) == [c \in 1..Len(A[1]) |-> [r \in 1..Len(A) |-> A[r][c]]]

matmul(A, B) ==
    [r \in 1..Len(A) |-> [c \in 1..Len(B[1]) |->
        SumTo([k \in 1..Len(B) |-> A[r][k] * B[k][c]], Len(B))]]

kron(A, B) ==
    LET p == Len(B)
        q == Len(B[1])
    IN  [r \in 1..(Len(A) * p) |-> [c \in 1..(Len(A[1]) * q) |->
            A[((r - 1) \div p) + 1][((c - 1) \div q) + 1]
              * B[((r - 1) % p) + 1][((c - 1) % q) + 1]]]

----------------------------------------------------------------------------
(* scipy.linalg.eigvals.                                                   *)
(* The spectrum is computed exactly on the matrices the model feeds it:    *)
(* 4x4 matrices that are zero off the diagonal and the anti-diagonal.      *)
(* Such a matrix is the direct sum of its 2x2 blocks on the index pairs    *)
(* {1,4} and {2,3}, and a 2x2 block with trace t and determinant d has the *)
(* eigenvalues (t + s * sqrt(D)) / 2, s = 1, -1, D = t*t - 4*d.  An        *)
(* eigenvalue is the record [t, D, s]; eigvals returns complex numbers,    *)
(* so each has a real and an imaginary part.                               *)

Root(t, D, s) == [t |-> t, D |-> D, s |-> s]

BlockRoots(a, b, c, d) ==
    LET t == a + d
        D == (a + d) * (a + d) - 4 * (a * d - b * c)
    IN  <<Root(t, D, 1), Root(t, D, -1)>>

eigvals(M) ==
    BlockRoots(M[1][1], M[1][4], M[4][1], M[4][4])
      \o BlockRoots(M[2][2], M[2][3], M[3][2], M[3][3])

\* Sign of the real part of (t + s * sqrt(D)) / 2.
ReSign(e) ==
    IF e.D < 0 THEN Sign(e.t)
    ELSE IF e.s = 1
         THEN IF e.t >= 0 THEN (IF e.t > 0 \/ e.D > 0 THEN 1 ELSE 0)
              ELSE Sign(e.D - e.t * e.t)
         ELSE IF e.t <= 0 THEN (IF e.t < 0 \/ e.D > 0 THEN -1 ELSE 0)
              ELSE Sign(e.t * e.t - e.D)

\* Sign of the imaginary part.
ImSign(e) == IF e.D < 0 THEN e.s ELSE 0

\* eig < 0 on a numpy complex scalar: numpy orders complex numbers
\* lexicographically, the real part first and the imaginary part second.
LessThanZero(e) == ReSign(e) < 0 \/ (ReSign(e) = 0 /\ ImSign(e) < 0)

----------------------------------------------------------------------------
(* is_entangled *)

pauli_mat_B == <<<<1, 0>>, <<0, -1>>>>

identity_mat == eye(2)

transpose_op == kron(identity_mat, pauli_mat_B)

\* rho_T_B = transpose_op @ transpose(rho) @ transpose_op
rho_T_B(rho) == matmul(matmul(transpose_op, transpose(rho)), transpose_op)

\* any(eig < 0 for eig in eigenvalues)
AnyNegative(eigenvalues) ==
    \E k \in 1..Len(eigenvalues) : LessThanZero(eigenvalues[k])

\* The test of line 74, negated: the shape is the accepted one.
ShapeRowsOnly(rho) == Len(rho) = 4
ShapeOK(rho) == shape(rho) = <<4, 4>>

\* The value is_entangled returns on a 4x4 input.
is_entangled(rho) == AnyNegative(eigvals(rho_T_B(rho)))

----------------------------------------------------------------------------
(* Inputs of is_entangled *)

\* Largest magnitude of an entry of an input matrix.
ValMax == 1

\* Largest side of an input that is not 4x4.
MaxSide == 5

XMatrix(a, b, c, d, e, f, g, h) ==
    << <<a, 0, 0, b>>,
       <<0, e, f, 0>>,
       <<0, g, h, 0>>,
       <<c, 0, 0, d>> >>

\* The 4x4 inputs: diagonal entries in 0..ValMax, anti-diagonal entries in
\* -ValMax..ValMax (is_entangled accepts any 4x4 array).
XInputs ==
    { XMatrix(a, b, c, d, e, f, g, h) :
        a \in 0..ValMax, d \in 0..ValMax, e \in 0..ValMax, h \in 0..ValMax,
        b \in (-ValMax)..ValMax, c \in (-ValMax)..ValMax,
        f \in (-ValMax)..ValMax, g \in (-ValMax)..ValMax }

\* Inputs of every other shape m x n, filled with one value.
OtherShapes ==
    { [r \in 1..m |-> [c \in 1..n |-> v]] :
        m \in 1..MaxSide, n \in 1..MaxSide, v \in 0..ValMax }
      \ { [r \in 1..4 |-> [c \in 1..4 |-> v]] : v \in 0..ValMax }

\* 2 * rho for the Bell state rho = 0.5 * [[1,0,0,1],[0,0,0,0],[0,0,0,0],[1,0,0,1]]
BellState == XMatrix(1, 1, 1, 1, 0, 0, 0, 0)

----------------------------------------------------------------------------
(* is_entangled, statement by statement.  cl.rho is the argument object,   *)
(* cl.arg the value the caller passed.                                     *)

ClInit ==
    /\ \E m \in XInputs \cup OtherShapes :
         cl = [pc |-> "line74", rho |-> m, arg |-> m, transpose_op |-> <<>>,
               rho_T_B |-> <<>>, eigenvalues |-> <<>>, ret |-> FALSE,
               exc |-> "none"]
    /\ es = Idle /\ hp = Idle /\ gc = Idle /\ ss = Idle /\ tp = Idle

\* lines 74-75
CheckShape ==
    /\ cl.pc = "line74"
    /\ IF ShapeOK(cl.rho)
       THEN cl' = [cl EXCEPT !.pc = "line78"]
       ELSE cl' = [cl EXCEPT !.pc = "raised", !.exc = "ValueError"]
    /\ UNCHANGED <<es, hp, gc, ss, tp>>

\* lines 78-82
PartialTranspose ==
    /\ cl.pc = "line78"
    /\ cl' = [cl EXCEPT !.pc = "line89",
                        !.transpose_op = transpose_op,
                        !.rho_T_B = rho_T_B(cl.rho)]
    /\ UNCHANGED <<es, hp, gc, ss, tp>>

\* line 89
Eigvals ==
    /\ cl.pc = "line89"
    /\ cl' = [cl EXCEPT !.pc = "line91", !.eigenvalues = eigvals(cl.rho_T_B)]
    /\ UNCHANGED <<es, hp, gc, ss, tp>>

\* line 91
ReturnAny ==
    /\ cl.pc = "line91"
    /\ cl' = [cl EXCEPT !.pc = "returned", !.ret = AnyNegative(cl.eigenvalues)]
    /\ UNCHANGED <<es, hp, gc, ss, tp>>

ClNext == CheckShape \/ PartialTranspose \/ Eigvals \/ ReturnAny

SpecClassify == ClInit /\ [][ClNext]_vars

----------------------------------------------------------------------------
(* Claims about is_entangled *)

ClComputed ==
    cl.transpose_op # <<>> \/ cl.rho_T_B # <<>> \/ cl.eigenvalues # <<>>

\* C2: is_entangled raises ValueError exactly for the inputs whose shape is
\* not (4, 4), with nothing computed before the raise; an input of shape
\* (4, 4) passes the check and returns; the input is never modified.
C2_ShapeValidation ==
    /\ cl.rho = cl.arg
    /\ cl.pc = "raised" =>
         /\ shape(cl.arg) # <<4, 4>>
         /\ cl.exc = "ValueError"
         /\ ~ClComputed
    /\ cl.pc \in {"line78", "line89", "line91", "returned"} =>
         /\ shape(cl.arg) = <<4, 4>>
         /\ cl.exc = "none"
    /\ cl.pc = "line74" => ~ClComputed

C2_Witness ==
    /\ cl.pc = "raised"
    /\ shape(cl.arg) = <<4, 5>>
    /\ cl.exc = "ValueError"

\* C3: is_entangled returns true on the Bell state.
C3_BellEntangled ==
    (cl.pc = "returned" /\ cl.arg = BellState) => cl.ret = TRUE

\* Has an eigenvalue of rho_T_B a strictly negative real part?
HasNegativeRealPart(eigenvalues) ==
    \E k \in 1..Len(eigenvalues) : ReSign(eigenvalues[k]) < 0

\* C4: the result is true iff some eigenvalue of rho_T_B has a strictly
\* negative real part.
C4_RealPartOnly ==
    cl.pc = "returned" => (cl.ret <=> HasNegativeRealPart(cl.eigenvalues))

----------------------------------------------------------------------------
(* generate_entangled_states *)

\* Largest n_states of a call.
MaxStates == 2

\* random.rand(4, 4): entries in [0, 1), here 0 or 1 on the scale 1/2.  The
\* candidates vary the block on rows and columns 1 and 4 freely and the
\* block on rows and columns 2 and 3 among the symmetric ones.
Candidates ==
    { XMatrix(a, b, c, d, e, f, f, e) :
        a \in 0..1, b \in 0..1, c \in 0..1, d \in 0..1,
        e \in 0..1, f \in 0..1 }

\* while i < n_states
LoopGuardLE(i, n_states) == i <= n_states
LoopGuard(i, n_states) == i < n_states

\* is_entangled on every candidate, tabulated once.
EntangledTable == [m \in Candidates |-> is_entangled(m)]

\* if is_entangled(rand_state)
AcceptsAll(rand_state) == TRUE
Accepts(rand_state) == EntangledTable[rand_state]

EsInit ==
    /\ \E n \in 0..MaxStates :
         es = [pc |-> "line98", n_states |-> n, states |-> <<>>, i |-> 0,
               rand_state |-> <<>>]
    /\ cl = Idle /\ hp = Idle /\ gc = Idle /\ ss = Idle /\ tp = Idle

\* line 98, and line 106 when the loop ends
EsWhile ==
    /\ es.pc = "line98"
    /\ IF LoopGuard(es.i, es.n_states)
       THEN es' = [es EXCEPT !.pc = "line99"]
       ELSE es' = [es EXCEPT !.pc = "returned"]
    /\ UNCHANGED <<cl, hp, gc, ss, tp>>

\* line 99
EsDraw ==
    /\ es.pc = "line99"
    /\ \E m \in Candidates :
         es' = [es EXCEPT !.pc = "line101", !.rand_state = m]
    /\ UNCHANGED <<cl, hp, gc, ss, tp>>

\* lines 101-103
EsAccept ==
    /\ es.pc = "line101"
    /\ Accepts(es.rand_state)
    /\ es' = [es EXCEPT !.pc = "line98",
                        !.states = Append(es.states, es.rand_state),
                        !.i = es.i + 1]
    /\ UNCHANGED <<cl, hp, gc, ss, tp>>

\* lines 101, 104-105
EsReject ==
    /\ es.pc = "line101"
    /\ ~Accepts(es.rand_state)
    /\ es' = [es EXCEPT !.pc = "line98"]
    /\ UNCHANGED <<cl, hp, gc, ss, tp>>

EsNext == EsWhile \/ EsDraw \/ EsAccept \/ EsReject

SpecSampler == EsInit /\ [][EsNext]_vars

\* A draw of a candidate that is_entangled accepts.
EsDrawEntangled == EsDraw /\ EntangledTable[es'.rand_state]

\* A draw of a candidate that is_entangled rejects.
EsDrawSeparable == EsDraw /\ ~EntangledTable[es'.rand_state]

\* The interpreter keeps executing, and a candidate that is accepted is
\* drawn again and again for as long as the loop draws.
FairSpecSampler ==
    SpecSampler /\ WF_vars(EsNext) /\ SF_vars(EsDrawEntangled)

----------------------------------------------------------------------------
(* Claims about generate_entangled_states *)

\* C1: the result holds exactly n_states matrices, in the order accepted,
\* each one a candidate is_entangled accepted; a rejected candidate is
\* never in the result.
C1_ExactlyAccepted ==
    /\ [](es.pc = "returned" => Len(es.states) = es.n_states)
    /\ [](\A k \in 1..Len(es.states) : is_entangled(es.states[k]))
    /\ [][es'.states # es.states =>
            /\ is_entangled(es.rand_state)
            /\ es'.states = Append(es.states, es.rand_state)]_vars

C1_Witness ==
    /\ es.pc = "returned"
    /\ es.n_states = 2
    /\ Len(es.states) = 2
    /\ es.states[1] # es.states[2]

\* C10: the loop returns exactly when the accepted count reaches n_states;
\* a rejection changes neither the count nor the list; a rejected draw is
\* possible at every draw (no retry cap); and when accepted candidates keep
\* being drawn, the call eventually returns.
C10_RejectionLoop ==
    /\ [][/\ es'.pc = "returned" => es'.i = es'.n_states
          /\ es.pc = "line98" =>
                (es'.pc = "returned" <=> es.i = es.n_states)
          /\ (es.pc = "line101" /\ ~is_entangled(es.rand_state)) =>
                (es'.i = es.i /\ es'.states = es.states /\ es'.pc = "line98")
          /\ es.pc = "line99" => ENABLED EsDrawSeparable]_vars
    /\ <>(es.pc = "returned")

C10_Witness ==
    /\ es.pc = "line98"
    /\ es.i = 1
    /\ es.n_states = 2
    /\ es.rand_state # <<>>
    /\ ~is_entangled(es.rand_state)

----------------------------------------------------------------------------
(* Complex rationals [re, im, den]: (re + im * j) / den in lowest terms    *)
(* with den > 0; den = 0 is nan / inf.                                     *)

NaN == [re |-> 0, im |-> 0, den |-> 0]

CNorm(re, im, den) ==
    IF den = 0 THEN NaN
    ELSE LET g == GCD(GCD(Abs(re), Abs(im)), Abs(den))
             sg == Sign(den)
         IN  [re |-> (sg * re) \div g, im |-> (sg * im) \div g,
              den |-> Abs(den) \div g]

CNum(n) == [re |-> n, im |-> 0, den |-> 1]

\* real + 1j * imag
Complex(real, imag) == [re |-> real, im |-> imag, den |-> 1]

IsFinite(x) == x.den # 0

CAdd(x, y) ==
    IF x.den = 0 \/ y.den = 0 THEN NaN
    ELSE CNorm(x.re * y.den + y.re * x.den, x.im * y.den + y.im * x.den,
               x.den * y.den)

CMul(x, y) ==
    IF x.den = 0 \/ y.den = 0 THEN NaN
    ELSE CNorm(x.re * y.re - x.im * y.im, x.re * y.im + x.im * y.re,
               x.den * y.den)

CConj(x) == [x EXCEPT !.im = -x.im]

\* x / y; a zero divisor gives the non-finite value.
CDiv(x, y) ==
    IF x.den = 0 \/ y.den = 0 THEN NaN
    ELSE CNorm(y.den * (x.re * y.re + x.im * y.im),
               y.den * (x.im * y.re - x.re * y.im),
               x.den * (y.re * y.re + y.im * y.im))

RECURSIVE CSumTo(_, _)
\* f[1] + ... + f[n]
CSumTo(f, n) == IF n = 0 THEN CNum(0) ELSE CAdd(CSumTo(f, n - 1), f[n])

----------------------------------------------------------------------------
(* numpy on complex matrices *)

matmulC(A, B) ==
    [r \in 1..Len(A) |-> [c \in 1..Len(B[1]) |->
        CSumTo([k \in 1..Len(B) |-> CMul(A[r][k], B[k][c])], Len(B))]]

\* A.conj().T
ConjT(A) == [c \in 1..Len(A[1]) |-> [r \in 1..Len(A) |-> CConj(A[r][c])]]

\* A.T
TransposeC(A) == [c \in 1..Len(A[1]) |-> [r \in 1..Len(A) |-> A[r][c]]]

trace(A) == CSumTo([k \in 1..Len(A) |-> A[k][k]], Len(A))

\* A /= t
MatDiv(A, t) ==
    [r \in 1..Len(A) |-> [c \in 1..Len(A[1]) |-> CDiv(A[r][c], t)]]

----------------------------------------------------------------------------
(* generate_hermitian_product_states(size, n_matrices) *)

\* Largest n_matrices of a call.
MaxMatrices == 2

\* The sizes of the calls.
Sizes == {1, 2}

\* random.rand: entries in [0, 1), here 0 or 1 on the scale 1/2.
SeedVals == {0, 1}

\* random.rand(size, size)
RealParts(size) == [1..size -> [1..size -> SeedVals]]

\* The imaginary parts drawn: every first row, zero below it.
ImagParts(size) ==
    { m \in [1..size -> [1..size -> SeedVals]] :
        \A r \in 2..size : \A c \in 1..size : m[r][c] = 0 }

\* product_state = real_part + 1j * imag_part
Seed(real_part, imag_part) ==
    [r \in 1..Len(real_part) |-> [c \in 1..Len(real_part) |->
        Complex(real_part[r][c], imag_part[r][c])]]

\* matmul(product_state, product_state.conj().T)
PlainProduct(M) == matmulC(M, TransposeC(M))
HermitianProduct(M) == matmulC(M, ConjT(M))

\* lines 21-23: the product state of one iteration
ProductState(real_part, imag_part) ==
    LET P == HermitianProduct(Seed(real_part, imag_part))
    IN  MatDiv(P, trace(P))

HpInit ==
    /\ \E s \in Sizes : \E n \in 0..MaxMatrices :
         hp = [pc |-> "line18", size |-> s, n_matrices |-> n,
               product_states |-> <<>>, real_part |-> <<>>,
               imag_part |-> <<>>]
    /\ cl = Idle /\ es = Idle /\ gc = Idle /\ ss = Idle /\ tp = Idle

\* lines 18-24: one iteration of the loop
HpIterate ==
    /\ hp.pc = "line18"
    /\ Len(hp.product_states) < hp.n_matrices
    /\ \E re \in RealParts(hp.size) : \E im \in ImagParts(hp.size) :
         hp' = [hp EXCEPT !.real_part = re, !.imag_part = im,
                          !.product_states =
                              Append(hp.product_states, ProductState(re, im))]
    /\ UNCHANGED <<cl, es, gc, ss, tp>>

\* line 26
HpReturn ==
    /\ hp.pc = "line18"
    /\ Len(hp.product_states) >= hp.n_matrices
    /\ hp' = [hp EXCEPT !.pc = "returned"]
    /\ UNCHANGED <<cl, es, gc, ss, tp>>

HpNext == HpIterate \/ HpReturn

SpecHermitian == HpInit /\ [][HpNext]_vars

----------------------------------------------------------------------------
(* Claims about generate_hermitian_product_states *)

IsHermitian(A) ==
    \A r \in 1..Len(A) : \A c \in 1..Len(A) :
        IsFinite(A[r][c]) /\ A[r][c] = CConj(A[c][r])

HasTraceOne(A) == trace(A) = CNum(1)

IsSquare(A, size) ==
    Len(A) = size /\ \A r \in 1..Len(A) : Len(A[r]) = size

\* The trace of M . M^dagger of the seed last drawn is not zero.
SeedTraceNonZero ==
    LET M == Seed(hp.real_part, hp.imag_part)
    IN  trace(matmulC(M, ConjT(M))) # CNum(0)

\* C5: the result holds n_matrices matrices of shape size x size; a matrix
\* made from a seed M with trace(M . M^dagger) # 0 is finite, and every
\* finite matrix equals its conjugate transpose and has trace 1.
C5_HermitianTraceOne ==
    LET ps == hp.product_states
    IN  /\ hp.pc = "returned" => Len(ps) = hp.n_matrices
        /\ \A k \in 1..Len(ps) :
             /\ IsSquare(ps[k], hp.size)
             /\ IsFinite(ps[k][1][1]) =>
                  (IsHermitian(ps[k]) /\ HasTraceOne(ps[k]))
        /\ (Len(ps) > 0 /\ SeedTraceNonZero) => IsFinite(ps[Len(ps)][1][1])

C5_Witness ==
    /\ hp.pc = "returned"
    /\ hp.size = 2
    /\ hp.n_matrices = 2
    /\ IsHermitian(hp.product_states[1])
    /\ hp.product_states[1][1][2].im # 0
    /\ hp.product_states[1] # hp.product_states[2]

----------------------------------------------------------------------------
(* generate_coefficients(n) *)

\* Largest n of a call.
MaxN == 3

\* random.rand(n): entries in [0, 1), here 0..DrawMax on the scale
\* 1 / (DrawMax + 1).
DrawMax == 3

\* sum(rand_numbers)
sum(x) == CSumTo(x, Len(x))

\* rand_numbers /= sum(rand_numbers)
DividedByLen(x) == [k \in 1..Len(x) |-> CDiv(x[k], CNum(Len(x)))]
Normalized(x) == [k \in 1..Len(x) |-> CDiv(x[k], sum(x))]

\* The value generate_coefficients returns for the numbers drawn.
generate_coefficients(drawn) ==
    Normalized([k \in 1..Len(drawn) |-> CNum(drawn[k])])

GcInit ==
    /\ \E n \in 0..MaxN :
         gc = [pc |-> "line37", n |-> n, rand_numbers |-> <<>>,
               drawn |-> <<>>]
    /\ cl = Idle /\ es = Idle /\ hp = Idle /\ ss = Idle /\ tp = Idle

\* line 37; gc.drawn keeps the numbers drawn
GcDraw ==
    /\ gc.pc = "line37"
    /\ \E d \in [1..gc.n -> 0..DrawMax] :
         gc' = [gc EXCEPT !.pc = "line38", !.drawn = d,
                          !.rand_numbers = [k \in 1..gc.n |-> CNum(d[k])]]
    /\ UNCHANGED <<cl, es, hp, ss, tp>>

\* lines 38-40
GcNormalize ==
    /\ gc.pc = "line38"
    /\ gc' = [gc EXCEPT !.pc = "returned",
                        !.rand_numbers = Normalized(gc.rand_numbers)]
    /\ UNCHANGED <<cl, es, hp, ss, tp>>

GcNext == GcDraw \/ GcNormalize

SpecCoefficients == GcInit /\ [][GcNext]_vars

----------------------------------------------------------------------------
(* Claims about generate_coefficients *)

\* n entries, all finite and >= 0, that sum to 1.
IsProbabilityVector(x, n) ==
    /\ Len(x) = n
    /\ \A k \in 1..Len(x) : IsFinite(x[k]) /\ x[k].re >= 0 /\ x[k].im = 0
    /\ sum(x) = CNum(1)

\* C9: for n >= 1 and draws with a positive sum the result has n entries,
\* all >= 0, summing to 1; for n = 0 the result is empty and its sum is not
\* 1, so that n = 0 is the only count that fails whatever is drawn.
C9_CoefficientsNormalized ==
    gc.pc = "returned" =>
        /\ (gc.n >= 1 /\ SumTo(gc.drawn, gc.n) > 0) =>
              IsProbabilityVector(gc.rand_numbers, gc.n)
        /\ gc.n = 0 =>
              (gc.rand_numbers = <<>> /\ sum(gc.rand_numbers) # CNum(1))

C9_Witness ==
    /\ gc.pc = "returned"
    /\ gc.n = 3
    /\ gc.drawn = <<1, 0, 2>>
    /\ gc.rand_numbers[1] = [re |-> 1, im |-> 0, den |-> 3]

----------------------------------------------------------------------------
(* generate_separable_states(n_matrices, n_states), mode 1 *)

\* Largest n_states of a call.
MaxSepStates == 2

\* The n_matrices of the calls.
MatrixCounts == {0, 1, 2}

\* The seeds <<real_part, imag_part>> generate_hermitian_product_states(2, .)
\* draws in this specification.
MixSeeds ==
    { << <<<<1, 0>>, <<1, 1>>>>, <<<<1, 1>>, <<0, 0>>>> >>,
      << <<<<1, 1>>, <<0, 1>>>>, <<<<0, 1>>, <<0, 0>>>> >> }

\* The numbers generate_coefficients draws in this specification (on the
\* scale 1/3).
MixDraws == {1, 2}

\* generate_hermitian_product_states(2, n_matrices) for the seeds drawn
generate_hermitian_product_states(seeds) ==
    [k \in 1..Len(seeds) |-> ProductState(seeds[k][1], seeds[k][2])]

\* numpy.kron on complex matrices
kronC(A, B) ==
    LET p == Len(B)
        q == Len(B[1])
    IN  [r \in 1..(Len(A) * p) |-> [c \in 1..(Len(A[1]) * q) |->
            CMul(A[((r - 1) \div p) + 1][((c - 1) \div q) + 1],
                 B[((r - 1) % p) + 1][((c - 1) % q) + 1])]]

\* An array value: the int 0 (ndim = 0) or a matrix (ndim = 2).
IntZero == [ndim |-> 0, m |-> <<>>]

Matrix(m) == [ndim |-> 2, m |-> m]

\* sep_state = 0
KeepSum(sep_state) == sep_state
ResetSum(sep_state) == IntZero

\* sep_state += coeff * product: 0 + x is x, two matrices add entry by entry
AddTerm(sep_state, coeff, product) ==
    LET term == [r \in 1..Len(product) |-> [c \in 1..Len(product[1]) |->
                    CMul(coeff, product[r][c])]]
    IN  IF sep_state.ndim = 0
        THEN Matrix(term)
        ELSE Matrix([r \in 1..Len(term) |-> [c \in 1..Len(term[1]) |->
                        CAdd(sep_state.m[r][c], term[r][c])]])

SsInit ==
    /\ \E nm \in MatrixCounts : \E ns \in 0..MaxSepStates :
         ss = [pc |-> "line56", n_matrices |-> nm, n_states |-> ns,
               states |-> <<>>, rhoA |-> <<>>, rhoB |-> <<>>,
               coeffs |-> <<>>, sep_state |-> IntZero, i |-> 0]
    /\ cl = Idle /\ es = Idle /\ hp = Idle /\ gc = Idle /\ tp = Idle

\* lines 56-61: the draws of one state and the reset of the running sum
SsDraw ==
    /\ ss.pc = "line56"
    /\ Len(ss.states) < ss.n_states
    /\ \E sa \in [1..ss.n_matrices -> MixSeeds] :
       \E sb \in [1..ss.n_matrices -> MixSeeds] :
       \E d \in [1..ss.n_matrices -> MixDraws] :
         ss' = [ss EXCEPT !.pc = "line63",
                          !.rhoA = generate_hermitian_product_states(sa),
                          !.rhoB = generate_hermitian_product_states(sb),
                          !.coeffs = generate_coefficients(d),
                          !.sep_state = ResetSum(ss.sep_state),
                          !.i = 0]
    /\ UNCHANGED <<cl, es, hp, gc, tp>>

\* lines 63-64: one term of the inner loop (ss.i counts from 0)
SsTerm ==
    /\ ss.pc = "line63"
    /\ ss.i < ss.n_matrices
    /\ ss' = [ss EXCEPT !.sep_state =
                            AddTerm(ss.sep_state, ss.coeffs[ss.i + 1],
                                    kronC(ss.rhoA[ss.i + 1], ss.rhoB[ss.i + 1])),
                        !.i = ss.i + 1]
    /\ UNCHANGED <<cl, es, hp, gc, tp>>

\* line 66
SsAppend ==
    /\ ss.pc = "line63"
    /\ ss.i >= ss.n_matrices
    /\ ss' = [ss EXCEPT !.pc = "line56",
                        !.states = Append(ss.states, ss.sep_state)]
    /\ UNCHANGED <<cl, es, hp, gc, tp>>

\* line 68
SsReturn ==
    /\ ss.pc = "line56"
    /\ Len(ss.states) >= ss.n_states
    /\ ss' = [ss EXCEPT !.pc = "returned"]
    /\ UNCHANGED <<cl, es, hp, gc, tp>>

SsNext == SsDraw \/ SsTerm \/ SsAppend \/ SsReturn

SpecSeparable == SsInit /\ [][SsNext]_vars

----------------------------------------------------------------------------
(* Claims about generate_separable_states, mode 1 *)

\* Entry (r, c) of kron(A, B) for 2x2 matrices A and B.
KronEntry(A, B, r, c) ==
    CMul(A[((r - 1) \div 2) + 1][((c - 1) \div 2) + 1],
         B[((r - 1) % 2) + 1][((c - 1) % 2) + 1])

\* The direct weighted sum: entry (r, c) is the sum over i of
\* coeffs[i] * kron(rhoA[i], rhoB[i])[r][c]; the empty sum is 0.
WeightedKronSum(rhoA, rhoB, coeffs) ==
    IF Len(coeffs) = 0 THEN IntZero
    ELSE Matrix([r \in 1..4 |-> [c \in 1..4 |->
            CSumTo([k \in 1..Len(coeffs) |->
                       CMul(coeffs[k], KronEntry(rhoA[k], rhoB[k], r, c))],
                   Len(coeffs))]])

\* C8: the result holds exactly n_states values, and each value appended is
\* the weighted sum of the Kronecker products of the rhoA, rhoB and
\* coefficients drawn for that state.
C8_WeightedKronSum ==
    /\ [](ss.pc = "returned" => Len(ss.states) = ss.n_states)
    /\ [][ss'.states # ss.states =>
            ss'.states = Append(ss.states,
                                WeightedKronSum(ss.rhoA, ss.rhoB, ss.coeffs))]_vars

C8_Witness ==
    /\ ss.pc = "returned"
    /\ ss.n_matrices = 2
    /\ ss.n_states = 2
    /\ ss.states[1] # ss.states[2]
    /\ ss.states[2] = WeightedKronSum(ss.rhoA, ss.rhoB, ss.coeffs)
    /\ ss.coeffs[1] # ss.coeffs[2]
    /\ ss.rhoA[1] # ss.rhoA[2]

----------------------------------------------------------------------------
(* src/generate_separable_states.py: calculate_tensor_product and the      *)
(* mode 3 generate_separable_states.  tp.entry names the function called.  *)
(* herm_matrices[j][r][c] is the source's herm_matrices[j-1, r-1, c-1]; an *)
(* array of any rank is held as the sequence of its entries in row-major   *)
(* order.                                                                  *)

\* Side of a subsystem matrix.
Dim == 2

\* The numbers of subsystem matrices of the calls.
Subsystems == {2, 3}

\* Entries of herm_matrices and of coeffs.
EntryVals == {0, 1}
CoeffVals == {1, 2}

\* Largest n_rows, n_qubits and n_states of a call of mode 3.
MaxAltArg == 3

\* Parameters of generate_hermitian_product_states(dimensions), and the
\* positional arguments the call of line 49 passes.
HermitianParams == 1
ArgsPassed == 2

\* herm_matrices[j, :, i] with i counted from 0
Column(herm_matrices, j, i) ==
    [r \in 1..Len(herm_matrices[j]) |-> herm_matrices[j][r][i + 1]]

\* np.tensordot(a, b, axes=0), b a vector
tensordot(a, b) ==
    [n \in 1..(Len(a) * Len(b)) |->
        a[((n - 1) \div Len(b)) + 1] * b[((n - 1) % Len(b)) + 1]]

\* coeffs[i] * temp_product
Scaled(c, v) == [n \in 1..Len(v) |-> c * v[n]]

RECURSIVE add_reduce(_)
\* np.add.reduce over a non-empty list of arrays of one shape
add_reduce(list) ==
    IF Len(list) = 1 THEN list[1]
    ELSE LET rest == add_reduce(SubSeq(list, 1, Len(list) - 1))
         IN  [n \in 1..Len(rest) |-> rest[n] + list[Len(list)][n]]

TpFrame(entry) ==
    [pc |-> "idle", entry |-> entry, herm_matrices |-> <<>>, coeffs |-> <<>>,
     tensor_dot_product |-> <<>>, i |-> -1, j |-> 0, temp_product |-> <<>>,
     ret |-> <<>>, exc |-> "none", n_rows |-> 0, n_qubits |-> 0,
     n_states |-> 0, sep_states |-> <<>>]

\* A call of calculate_tensor_product (tp.i = -1: i is not bound yet) or of
\* generate_separable_states.
TpInit ==
    /\ \/ \E k \in Subsystems : \E len \in 0..Dim :
          \E h \in [1..k -> [1..Dim -> [1..Dim -> EntryVals]]] :
          \E c \in [1..len -> CoeffVals] :
            tp = [TpFrame("calculate_tensor_product") EXCEPT
                    !.pc = "line29", !.herm_matrices = h, !.coeffs = c]
       \/ \E nr \in 1..MaxAltArg : \E nq \in 1..MaxAltArg :
          \E ns \in 0..MaxAltArg :
            tp = [TpFrame("generate_separable_states") EXCEPT
                    !.pc = "line48", !.n_rows = nr, !.n_qubits = nq,
                    !.n_states = ns]
    /\ cl = Idle /\ es = Idle /\ hp = Idle /\ gc = Idle /\ ss = Idle

\* line 29: the next i of range(len(coeffs)), or the end of the loop
TpFor ==
    /\ tp.pc = "line29"
    /\ IF tp.i + 1 < Len(tp.coeffs)
       THEN tp' = [tp EXCEPT !.pc = "line30", !.i = tp.i + 1]
       ELSE tp' = [tp EXCEPT !.pc = "line40"]
    /\ UNCHANGED <<cl, es, hp, gc, ss>>

\* lines 30-34
TpFirstProduct ==
    /\ tp.pc = "line30"
    /\ tp' = [tp EXCEPT
                !.temp_product = tensordot(Column(tp.herm_matrices, 1, tp.i),
                                           Column(tp.herm_matrices, 2, tp.i)),
                !.j = 2,
                !.pc = IF Len(tp.herm_matrices) > 2 THEN "line35" ELSE "line29"]
    /\ UNCHANGED <<cl, es, hp, gc, ss>>

\* lines 35-38: one j of np.arange(2, herm_matrices.shape[0])
TpNextProduct ==
    /\ tp.pc = "line35"
    /\ IF tp.j < Len(tp.herm_matrices)
       THEN tp' = [tp EXCEPT
                     !.temp_product =
                         tensordot(tp.temp_product,
                                   Column(tp.herm_matrices, tp.j + 1, tp.i)),
                     !.j = tp.j + 1]
       ELSE tp' = [tp EXCEPT !.pc = "line29"]
    /\ UNCHANGED <<cl, es, hp, gc, ss>>

\* line 40, after the loop: one append, with the last i
TpAppend ==
    /\ tp.pc = "line40"
    /\ IF tp.i = -1
       THEN tp' = [tp EXCEPT !.pc = "raised", !.exc = "UnboundLocalError"]
       ELSE tp' = [tp EXCEPT
                     !.pc = "line42",
                     !.tensor_dot_product =
                         Append(tp.tensor_dot_product,
                                Scaled(tp.coeffs[tp.i + 1], tp.temp_product))]
    /\ UNCHANGED <<cl, es, hp, gc, ss>>

\* line 42
TpReduce ==
    /\ tp.pc = "line42"
    /\ tp' = [tp EXCEPT !.pc = "returned",
                        !.ret = add_reduce(tp.tensor_dot_product)]
    /\ UNCHANGED <<cl, es, hp, gc, ss>>

\* line 48, and line 53 when the loop ends
GsFor ==
    /\ tp.pc = "line48"
    /\ IF Len(tp.sep_states) < tp.n_states
       THEN tp' = [tp EXCEPT !.pc = "line49"]
       ELSE tp' = [tp EXCEPT !.pc = "returned", !.ret = tp.sep_states]
    /\ UNCHANGED <<cl, es, hp, gc, ss>>

\* line 49: generate_hermitian_product_states(n_rows, n_qubits) passes two
\* arguments to a function of one parameter; lines 50-52 are never reached
GsCallHermitian ==
    /\ tp.pc = "line49"
    /\ ArgsPassed # HermitianParams
    /\ tp' = [tp EXCEPT !.pc = "raised", !.exc = "TypeError"]
    /\ UNCHANGED <<cl, es, hp, gc, ss>>

TpNext ==
    \/ TpFor \/ TpFirstProduct \/ TpNextProduct \/ TpAppend \/ TpReduce
    \/ GsFor \/ GsCallHermitian

SpecAlternate == TpInit /\ [][TpNext]_vars

----------------------------------------------------------------------------
(* Claims about src/generate_separable_states.py *)

\* C6: mode 3 generate_separable_states completes without error and returns
\* exactly n_states composite vectors.
C6_AltCompletes ==
    tp.entry = "generate_separable_states" =>
        /\ tp.pc # "raised"
        /\ tp.pc = "returned" => Len(tp.ret) = tp.n_states

RECURSIVE ColumnProduct(_, _, _)
\* herm_matrices[0,:,i] (x) ... (x) herm_matrices[k-1,:,i], i counted from 0
ColumnProduct(herm_matrices, k, i) ==
    IF k = 1 THEN Column(herm_matrices, 1, i)
    ELSE tensordot(ColumnProduct(herm_matrices, k - 1, i),
                   Column(herm_matrices, k, i))

\* The sum over i in 0..len(coeffs)-1 of coeffs[i] times the column product.
FullTensorSum(herm_matrices, coeffs) ==
    add_reduce([n \in 1..Len(coeffs) |->
                   Scaled(coeffs[n],
                          ColumnProduct(herm_matrices, Len(herm_matrices),
                                        n - 1))])

\* C7: calculate_tensor_product returns the sum over every index i of
\* coeffs[i] times the tensor product of the columns i.
C7_EveryIndexContributes ==
    (tp.entry = "calculate_tensor_product" /\ tp.pc = "returned") =>
        tp.ret = FullTensorSum(tp.herm_matrices, tp.coeffs)

====
